---- MODULE Spec2Model ----
(***************************************************************************)
(* go-mod-dependency-tree: the two dependency walkers (graph walker of     *)
(* dependency-tree.go, tree walker of the second main package) and the     *)
(* cache locator they share.                                               *)
(*                                                                         *)
(* A Go string is a sequence of one-character strings, so that Split,      *)
(* the regular expression and the capital escaping are computed as the     *)
(* code computes them.  A path is the string filepath.Join builds,         *)
(* relative to GOPATH.                                                     *)
(***************************************************************************)
EXTENDS Integers, Sequences, FiniteSets, TLC

VARIABLES
    prog,       \* which main package runs: "graph", "tree", or "locator" (constructFilePath alone)
    fs,         \* the file system under GOPATH: [stat : path -> outcome, manifest : path -> go.mod]
    modName,    \* result of getModuleName(cwd)
    maxDepth,   \* the -max-depth flag
    pc,         \* "main" (module constructed), "walk" (inside List), "flush", "done"
    stack,      \* the getModuleList activation records, innermost last
    cache,      \* module.cache
    packages,   \* module.packages (graph)
    indexes,    \* module.indexes  (graph)
    unknown,    \* module.unknown  (graph: a set)
    writer,     \* module.writer   (tree: the lines of the buffer)
    unknownBuf, \* module.unknown  (tree: the lines of the buffer)
    out,        \* what Flush wrote to the writer (stdout)
    stderr,     \* diagnostics Flush wrote to os.Stderr
    locDep,     \* locator run: the identity handed to the locator
    locResult,  \* locator run: what constructFilePath returned
    located,    \* the locator's answer for every identity of the run (fs never changes)
    expanded,   \* history: identities whose requirements were iterated, in order
    lineLevel,  \* history: recursion level of the call that wrote each line of writer
    firstSeen   \* history: dependency targets in the order they were first referenced

vars == <<prog, fs, modName, maxDepth, pc, stack, cache, packages, indexes, unknown,
          writer, unknownBuf, out, stderr, locDep, locResult, located, expanded,
          lineLevel, firstSeen>>

----------------------------------------------------------------------------
(* Strings *)

Str_src == <<"s", "r", "c">>
Str_pkg == <<"p", "k", "g">>
Str_mod == <<"m", "o", "d">>
Str_at == <<"@">>
Str_space == <<" ">>
Str_comment == <<" ", "/", "/">>
Str_indent == <<" ", " ">>

Digit == {"0", "1", "2", "3", "4", "5", "6", "7", "8", "9"}

\* strings.ToLower on one letter (the capitals the modelled names use)
ToLower(c) ==
    CASE c = "A" -> "a" [] c = "B" -> "b" [] c = "F" -> "f" [] c = "X" -> "x"
      [] OTHER -> c

\* whether sep occurs in s at position i
HasAt(s, sep, i) ==
    /\ i + Len(sep) - 1 <= Len(s)
    /\ \A k \in 1..Len(sep) : s[i + k - 1] = sep[k]

\* strings.Contains
Contains(s, sep) == \E i \in 1..Len(s) : HasAt(s, sep, i)

\* strings.Split(s, sep) for a non-empty sep
RECURSIVE Split(_, _)
Split(s, sep) ==
    IF ~Contains(s, sep) THEN <<s>>
    ELSE LET i == CHOOSE j \in 1..Len(s) :
                      HasAt(s, sep, j) /\ \A k \in 1..(j - 1) : ~HasAt(s, sep, k)
         IN <<SubSeq(s, 1, i - 1)>> \o Split(SubSeq(s, i + Len(sep), Len(s)), sep)

\* filepath.Join: the non-empty elements joined by "/" (the modelled names hold
\* no ".", ".." or empty path elements for Clean to rewrite)
RECURSIVE Join(_)
Join(elems) ==
    IF elems = <<>> THEN <<>>
    ELSE LET rest == Join(Tail(elems))
         IN IF Head(elems) = <<>> THEN rest
            ELSE IF rest = <<>> THEN Head(elems)
            ELSE Head(elems) \o <<"/">> \o rest

\* \d+ : the positions lo..hi of s hold digits, and at least one
Digits(s, lo, hi) == lo <= hi /\ \A k \in lo..hi : s[k] \in Digit

\* The ends (exclusive) of the matches of v\d+\.\d+\.\d+ that start at position
\* i of s.  Every \d+ is greedy: the first two runs end at the dot that follows
\* them, the last one where the digits stop.
MatchEnds(s, i) ==
    {c \in (i + 1)..(Len(s) + 1) :
        /\ s[i] = "v"
        /\ \E a, b \in (i + 1)..Len(s) :
              /\ Digits(s, i + 1, a - 1) /\ s[a] = "."
              /\ Digits(s, a + 1, b - 1) /\ s[b] = "."
              /\ Digits(s, b + 1, c - 1)
        /\ (c > Len(s) \/ s[c] \notin Digit)}

\* end (exclusive) of the match of v\d+\.\d+\.\d+ at position i of s, 0 if none
MatchAt(s, i) == IF MatchEnds(s, i) = {} THEN 0 ELSE CHOOSE c \in MatchEnds(s, i) : TRUE

Min(S) == CHOOSE x \in S : \A y \in S : x <= y

\* the match of the expression that starts at position i of s
MatchFrom(s, i) == SubSeq(s, i, MatchAt(s, i) - 1)

\* the match that starts at the leftmost position of `starts`
LeftmostMatch(s, starts) == IF starts = {} THEN <<>> ELSE <<MatchFrom(s, Min(starts))>>

\* re.FindStringSubmatch: the leftmost match, as the one-element slice <<match>>
FindStringSubmatch(s) == LeftmostMatch(s, {i \in 1..Len(s) : MatchAt(s, i) # 0})

\* lines 223-228 of getSemVer
SemVerOfMatch(match) ==
    IF Len(match) = 0 THEN <<>>
    ELSE IF Len(match) = 1 THEN match[1]
    ELSE match[2]

getSemVer(version) == SemVerOfMatch(FindStringSubmatch(version))

\* lines 186-187: s := strings.Split(module, "@"); return s[0], s[1]
NameVersionAt(s) == <<s[1], s[2]>>

\* lines 190-195: s := strings.Split(module, " ")
NameVersionSpace(s) ==
    IF Len(s) = 1 THEN <<s[1], <<>>>> ELSE <<s[1], getSemVer(s[2])>>

getNameAndVersion(module) ==
    IF Contains(module, Str_at) THEN NameVersionAt(Split(module, Str_at))
    ELSE NameVersionSpace(Split(module, Str_space))

\* the body of the loop of escapeCapitalsInModuleName
EscapeLetter(letter) ==
    IF ToLower(letter) # letter THEN <<"!", ToLower(letter)>> ELSE <<letter>>

RECURSIVE escapeCapitalsInModuleName(_)
escapeCapitalsInModuleName(name) ==
    IF name = <<>> THEN <<>>
    ELSE EscapeLetter(Head(name)) \o escapeCapitalsInModuleName(Tail(name))

----------------------------------------------------------------------------
(* The file system and the cache locator *)

\* os.Stat(path): "ok" (err == nil), "noent" (os.IsNotExist(err)), "err" (any other error)
Stat(f, path) == IF path \in DOMAIN f.stat THEN f.stat[path] ELSE "noent"

\* the test `err == nil || !os.IsNotExist(err)` made on each candidate
ErrIsNil(st) == st = "ok"
IsNotExist(st) == st = "noent"
StatPasses(st) == ErrIsNil(st) \/ ~IsNotExist(st)
StatFound(f, path) == StatPasses(Stat(f, path))

\* the three candidates, in the order they are tried
srcPath(module) == Join(<<Str_src, module>>)
pkgPath(module, version) ==
    Join(<<Str_pkg, Str_mod, module \o Str_at \o getSemVer(version)>>)
fullVersionPkgPath(module, version) ==
    Join(<<Str_pkg, Str_mod, module \o Str_at \o version>>)

\* lines 202-216: the first candidate whose Stat passes the test
FirstFound(f, p1, p2, p3) ==
    IF StatFound(f, p1) THEN [path |-> p1, found |-> TRUE]
    ELSE IF StatFound(f, p2) THEN [path |-> p2, found |-> TRUE]
    ELSE IF StatFound(f, p3) THEN [path |-> p3, found |-> TRUE]
    ELSE [path |-> <<>>, found |-> FALSE]

Candidates(f, module, version) ==
    FirstFound(f, srcPath(module), pkgPath(module, version),
               fullVersionPkgPath(module, version))

CandidatesOf(f, nv) == Candidates(f, nv[1], nv[2])

constructFilePath(f, dep) == CandidatesOf(f, getNameAndVersion(dep))

----------------------------------------------------------------------------
(* Manifests and the inputs of a run *)

MaxDepth == 3      \* largest finite -max-depth tried
MaxEdges == 4      \* most requirement lines in a generated manifest graph
ChainLen == 50     \* modules of the long chain

V1 == <<"v", "1", ".", "0", ".", "0">>
Pseudo == <<"v", "0", ".", "0", ".", "0", "-", "2", "0", "-", "a", "b">>
R == <<"r">>
X == <<"x">>
Y == <<"y">>
Z == <<"z">>
A == <<"a">>
B == <<"b">>
CapF == <<"F">>

Req(path, version) == [Path |-> path, Version |-> version]

\* the identity the walkers build for a requirement: require.Mod.Path + " " + require.Mod.Version
Line(require) == require.Mod.Path \o Str_space \o require.Mod.Version

Require(path, version) == [Mod |-> Req(path, version)]

SrcDir(name) == Join(<<Str_src, name>>)
ModDir(name, version) == Join(<<Str_pkg, Str_mod, name \o Str_at \o version>>)

\* a go.mod that parses, with its require lines in declaration order
GoMod(requires) == [ok |-> TRUE, Require |-> requires]
\* a go.mod that modfile.Parse rejects
BadGoMod == [ok |-> FALSE, Require |-> <<>>]

\* os.ReadFile(dir/go.mod) fails when the directory holds no go.mod
CanRead(f, dir) == dir \in DOMAIN f.manifest

Deps == {X, Y, Z}
Nodes == {R} \cup Deps

\* the sequences of distinct elements of S, at most n long
ReqLists(S, n) ==
    {s \in UNION {[1..k -> S] : k \in 0..n} : \A i, j \in 1..Len(s) : s[i] = s[j] => i = j}

RECURSIVE SumLen(_, _)
SumLen(l, S) ==
    IF S = {} THEN 0
    ELSE LET n == CHOOSE m \in S : TRUE IN Len(l[n]) + SumLen(l, S \ {n})

\* the modules the modules of S require
Succ(l, S) == UNION {{l[n][i] : i \in 1..Len(l[n])} : n \in S}

RECURSIVE Closure(_, _)
Closure(l, S) == IF Succ(l, S) \subseteq S THEN S ELSE Closure(l, S \cup Succ(l, S))

\* the modules n requires, directly or not
Descendants(l, n) == Closure(l, Succ(l, {n}))

\* the generated manifest graphs: the root r and the dependencies x, y, z at
\* v1.0.0; a module the root does not reach declares nothing
Graphs ==
    {l \in [Nodes -> ReqLists(Deps, Cardinality(Deps))] :
        /\ SumLen(l, Nodes) <= MaxEdges
        /\ \A n \in Deps : l[n] # <<>> => n \in Descendants(l, R)}

NodeDir(n) == IF n = R THEN SrcDir(R) ELSE ModDir(n, V1)

\* the file system of a generated graph; the modules of `missing` are not in the cache
GraphFS(l, missing) ==
    LET present == Nodes \ missing
        dirs == {NodeDir(n) : n \in present}
        node(d) == CHOOSE n \in present : NodeDir(n) = d
    IN [stat |-> [d \in dirs |-> "ok"],
        manifest |-> [d \in dirs |->
            GoMod([i \in 1..Len(l[node(d)]) |-> Require(l[node(d)][i], V1)])]]

GraphWorld(l, missing) == [modName |-> R, fs |-> GraphFS(l, missing)]

\* A requires B and B requires A; A is the project, found under src/
CycleWorld ==
    [modName |-> A,
     fs |-> [stat |-> (SrcDir(A) :> "ok") @@ (ModDir(B, V1) :> "ok"),
             manifest |-> (SrcDir(A) :> GoMod(<<Require(B, V1)>>))
                          @@ (ModDir(B, V1) :> GoMod(<<Require(A, V1)>>))]]

DigitOf(i) == CASE i = 0 -> "0" [] i = 1 -> "1" [] i = 2 -> "2" [] i = 3 -> "3"
                [] i = 4 -> "4" [] i = 5 -> "5" [] i = 6 -> "6" [] i = 7 -> "7"
                [] i = 8 -> "8" [] i = 9 -> "9"

\* the name of the i-th module of the chain
ChainName(i) ==
    <<"c">> \o (IF i < 10 THEN <<DigitOf(i)>> ELSE <<DigitOf(i \div 10), DigitOf(i % 10)>>)

ChainDir(i) == IF i = 1 THEN SrcDir(ChainName(1)) ELSE ModDir(ChainName(i), V1)

\* c1 -> c2 -> ... -> cN, every module in the cache
ChainWorld ==
    LET dirs == {ChainDir(i) : i \in 1..ChainLen}
        idx(d) == CHOOSE i \in 1..ChainLen : ChainDir(i) = d
    IN [modName |-> ChainName(1),
        fs |-> [stat |-> [d \in dirs |-> "ok"],
                manifest |-> [d \in dirs |->
                    IF idx(d) = ChainLen THEN GoMod(<<>>)
                    ELSE GoMod(<<Require(ChainName(idx(d) + 1), V1)>>)]]]

\* r requires x at a pseudo-version (cached under the whole token), F (capital,
\* cached under !f), y (stat fails on src/y, y is cached under pkg/mod), z
\* (cached, go.mod does not parse) and b (cached directory without go.mod)
MixedWorld ==
    [modName |-> R,
     fs |-> [stat |-> (SrcDir(R) :> "ok") @@ (ModDir(X, Pseudo) :> "ok")
                      @@ (ModDir(<<"!", "f">>, V1) :> "ok")
                      @@ (SrcDir(Y) :> "err") @@ (ModDir(Y, V1) :> "ok")
                      @@ (ModDir(Z, V1) :> "ok") @@ (ModDir(B, V1) :> "ok"),
             manifest |-> (SrcDir(R) :> GoMod(<<Require(X, Pseudo), Require(CapF, V1),
                                               Require(Y, V1), Require(Z, V1),
                                               Require(B, V1)>>))
                          @@ (ModDir(X, Pseudo) :> GoMod(<<Require(Z, V1)>>))
                          @@ (ModDir(<<"!", "f">>, V1) :> GoMod(<<Require(Z, V1)>>))
                          @@ (ModDir(Y, V1) :> GoMod(<<Require(Z, V1)>>))
                          @@ (ModDir(Z, V1) :> BadGoMod)]]

\* a requirement cycle can be reached from the root
HasCycle(l) == \E n \in Descendants(l, R) : n \in Descendants(l, n)

CyclicWorlds == {GraphWorld(l, {}) : l \in {g \in Graphs : HasCycle(g)}} \cup {CycleWorld}

\* the generated graphs, and those that reach z once more with z not in the cache
GraphWorlds ==
    {GraphWorld(l, {}) : l \in Graphs}
        \cup {GraphWorld(l, {Z}) : l \in {g \in Graphs : Z \in Descendants(g, R) /\ g[Z] = <<>>}}

Worlds == GraphWorlds \cup {CycleWorld, ChainWorld, MixedWorld}

\* -max-depth: -1 for no limit, otherwise an integer greater than 0
DepthFlags == {-1} \cup 1..MaxDepth

\* the identities handed to the locator when it is run alone
LocatorDeps ==
    {R, X \o Str_space \o V1, X \o Str_space \o Pseudo, CapF \o Str_space \o V1,
     X \o Str_at \o Pseudo, X \o Str_space \o <<"m", "a", "i", "n">>}

\* the name and the declared version token of an identity
NameOf(dep) ==
    IF Contains(dep, Str_at) THEN Split(dep, Str_at)[1] ELSE Split(dep, Str_space)[1]
TokenOf(dep) ==
    IF Contains(dep, Str_at) THEN Split(dep, Str_at)[2]
    ELSE IF Contains(dep, Str_space) THEN Split(dep, Str_space)[2] ELSE <<>>

\* the three cache layouts of an identity: src/<name>, pkg/mod/<name>@<semver>,
\* pkg/mod/<name>@<version token>
LayoutsOf(name, token) ==
    <<SrcDir(name), ModDir(name, getSemVer(token)), ModDir(name, token)>>
EscapedLayouts(e) == LayoutsOf(NameOf(e), TokenOf(e))
Layouts(dep) == EscapedLayouts(escapeCapitalsInModuleName(dep))

StatOutcomes == {"ok", "noent", "err"}

----------------------------------------------------------------------------
(* State after construction (main, up to the call of List) *)

EmptyMap == [k \in {} |-> 0]

Idle ==
    /\ stack = <<>> /\ cache = {} /\ packages = EmptyMap /\ indexes = EmptyMap
    /\ unknown = {} /\ writer = <<>> /\ unknownBuf = <<>> /\ out = <<>> /\ stderr = {}
    /\ expanded = <<>> /\ lineLevel = <<>> /\ firstSeen = <<>>

\* constructFilePath(escapeCapitalsInModuleName(modPath)), as both walkers call it
Locate(f, modPath) == constructFilePath(f, escapeCapitalsInModuleName(modPath))

\* the identities a run on w can meet: the root and every require line
Identities(w) ==
    {w.modName} \cup
    UNION {{Line(w.fs.manifest[d].Require[i]) : i \in 1..Len(w.fs.manifest[d].Require)} :
              d \in DOMAIN w.fs.manifest}

InitWalkIn(W) ==
    /\ prog \in {"graph", "tree"}
    /\ \E w \in W :
          /\ modName = w.modName /\ fs = w.fs
          /\ located = [id \in Identities(w) |-> Locate(w.fs, id)]
    /\ maxDepth \in DepthFlags
    /\ pc = "main"
    /\ locDep = <<>> /\ locResult = <<>>
    /\ Idle

\* two layouts that name the same path share the outcome of the first
FirstLayout(l, d) == CHOOSE i \in 1..3 : l[i] = d /\ \A j \in 1..(i - 1) : l[j] # d
OutcomeOf(l, o, d) == o[FirstLayout(l, d)]

\* the file system in which Stat of layout i of l gives o[i]
LocatorFS(l, o) ==
    [stat |-> [d \in {l[i] : i \in {j \in 1..3 : OutcomeOf(l, o, l[j]) # "noent"}}
                  |-> OutcomeOf(l, o, d)],
     manifest |-> EmptyMap]

InitLocator ==
    /\ prog = "locator"
    /\ locDep \in LocatorDeps
    /\ \E o \in [1..3 -> StatOutcomes] : fs = LocatorFS(Layouts(locDep), o)
    /\ located = EmptyMap
    /\ modName = <<>> /\ maxDepth = -1
    /\ pc = "main"
    /\ locResult = <<>>
    /\ Idle

InitWalk == InitWalkIn(Worlds)

Init == InitWalk \/ InitLocator

\* the runs of the walkers on the manifest graphs that hold a cycle
InitCyclic == InitWalkIn(CyclicWorlds)

----------------------------------------------------------------------------
(* Pieces of getModuleList shared by the two walkers *)

\* Go's int, at its narrowest (32 bits); the decrement wraps
IntMin == -2147483647 - 1
IntMax == 2147483647

Dec_none(depth) == depth

\* depth-1
Dec(depth) == IF depth = IntMin THEN IntMax ELSE depth - 1

Visited_never(c, modPath) == FALSE

\* if _, ok := m.cache[modPath]; ok
Visited(c, modPath) == modPath \in c

MarkVisited_skip(c, modPath) == c

\* m.cache[modPath] = struct{}{}
MarkVisited(c, modPath) == c \cup {modPath}

DepthExhausted_le(depth) == depth <= 0

\* if depth == 0
DepthExhausted(depth) == depth = 0

Frame(modPath, indent, depth) ==
    [modPath |-> modPath, indent |-> indent, depth |-> depth,
     at |-> "enter", Require |-> <<>>, i |-> 1]

Top == stack[Len(stack)]
Pop == SubSeq(stack, 1, Len(stack) - 1)
\* the activation record on top replaced
SetTop(fr) == [stack EXCEPT ![Len(stack)] = fr]

\* the recursive call of the range loop: m.getModuleList(line, indent+"  ", depth-1)
Recurse(fr, line) ==
    Append(SetTop([fr EXCEPT !.i = @ + 1]),
           Frame(line, fr.indent \o Str_indent, Dec(fr.depth)))

List ==
    /\ pc = "main" /\ prog \in {"graph", "tree"}
    /\ pc' = "walk"
    /\ stack' = <<Frame(modName, <<>>, maxDepth)>>
    /\ UNCHANGED <<prog, fs, modName, maxDepth, cache, packages, indexes, unknown,
                   writer, unknownBuf, out, stderr, locDep, locResult, located, expanded,
                   lineLevel, firstSeen>>

----------------------------------------------------------------------------
(* Graph walker: dependency-tree.go *)

\* index = len(m.indexes)
NewIndex(idx) == Cardinality(DOMAIN idx)

Indexed_reassign(idx, line) == (line :> NewIndex(idx)) @@ idx

\* lines 169-173: the index of line, assigned when it has none
Indexed(idx, line) == IF line \in DOMAIN idx THEN idx ELSE idx @@ (line :> NewIndex(idx))

\* lines 175-178: the edge modPath -> index
AddEdge(pk, modPath, index) ==
    IF modPath \in DOMAIN pk THEN [pk EXCEPT ![modPath] = @ \cup {index}]
    ELSE pk @@ (modPath :> {index})

\* rawPath, modFound := constructFilePath(escapeCapitalsInModuleName(modPath))
Locator(modPath) == located[modPath]

\* lines 155-164: go.mod of the located directory is read and parsed
Parsed(dir) == CanRead(fs, dir) /\ fs.manifest[dir].ok

\* the activation record entering its range loop over file.Require
Ranging(fr, dir) == [fr EXCEPT !.at = "range", !.Require = fs.manifest[dir].Require]

\* getModuleList of fr up to the range loop (lines 139-165), r the locator's answer
GraphEnter(fr, r) ==
    IF Visited(cache, fr.modPath)
    THEN /\ stack' = Pop
         /\ UNCHANGED <<cache, unknown, expanded>>
    ELSE /\ cache' = MarkVisited(cache, fr.modPath)
         /\ IF DepthExhausted(fr.depth)
            THEN stack' = Pop /\ UNCHANGED <<unknown, expanded>>
            ELSE IF ~r.found
            THEN /\ unknown' = unknown \cup {fr.modPath}
                 /\ stack' = Pop
                 /\ UNCHANGED expanded
            ELSE IF ~Parsed(r.path)
            THEN stack' = Pop /\ UNCHANGED <<unknown, expanded>>
            ELSE /\ stack' = SetTop(Ranging(fr, r.path))
                 /\ expanded' = Append(expanded, fr.modPath)
                 /\ UNCHANGED unknown

Graph_getModuleList ==
    /\ prog = "graph" /\ pc = "walk" /\ stack # <<>> /\ Top.at = "enter"
    /\ GraphEnter(Top, Locator(Top.modPath))
    /\ UNCHANGED <<prog, fs, modName, maxDepth, pc, packages, indexes, writer,
                   unknownBuf, out, stderr, locDep, locResult, located, lineLevel, firstSeen>>

\* the body of the range loop for the requirement `line` (lines 167-180)
GraphRequire(fr, line) ==
    /\ indexes' = Indexed(indexes, line)
    /\ packages' = AddEdge(packages, fr.modPath, indexes'[line])
    /\ firstSeen' = IF line \in DOMAIN indexes THEN firstSeen ELSE Append(firstSeen, line)
    /\ stack' = Recurse(fr, line)

\* one iteration of the range loop (lines 166-181), up to the recursive call
Graph_range ==
    /\ prog = "graph" /\ pc = "walk" /\ stack # <<>> /\ Top.at = "range"
    /\ Top.i <= Len(Top.Require)
    /\ GraphRequire(Top, Line(Top.Require[Top.i]))
    /\ UNCHANGED <<prog, fs, modName, maxDepth, pc, cache, unknown, writer, unknownBuf,
                   out, stderr, locDep, locResult, located, expanded, lineLevel>>

\* the range loop is over: getModuleList returns (line 182)
Graph_return ==
    /\ prog = "graph" /\ pc = "walk" /\ stack # <<>> /\ Top.at = "range"
    /\ Top.i > Len(Top.Require)
    /\ stack' = Pop
    /\ UNCHANGED <<prog, fs, modName, maxDepth, pc, cache, packages, indexes, unknown,
                   writer, unknownBuf, out, stderr, locDep, locResult, located, expanded,
                   lineLevel, firstSeen>>

\* the ascending list of a set of indexes (sort.Slice)
RECURSIVE Sorted(_)
Sorted(S) ==
    IF S = {} THEN <<>>
    ELSE LET m == CHOOSE x \in S : \A y \in S : x <= y IN <<m>> \o Sorted(S \ {m})

\* the orders in which a map's keys may be ranged over
Orders(S) ==
    {s \in [1..Cardinality(S) -> S] : \A i, j \in 1..Cardinality(S) : s[i] = s[j] => i = j}

\* lines 113-116: indexes[index] = pkg, on a slice of len(m.indexes) empty strings
IndexSlice(idx) ==
    [i \in 1..Cardinality(DOMAIN idx) |->
        IF \E pkg \in DOMAIN idx : idx[pkg] = i - 1
        THEN CHOOSE pkg \in DOMAIN idx : idx[pkg] = i - 1
        ELSE <<>>]

\* lines 99-111: a package gets a key when an index is appended to its list
PackageLists(pk) ==
    [pkg \in {k \in DOMAIN pk : pk[k] # {}} |-> Sorted(pk[pkg])]

\* Flush (lines 98-137); List has returned
Graph_Flush ==
    /\ prog = "graph" /\ pc = "walk" /\ stack = <<>>
    /\ stderr' = {pkg \in DOMAIN packages : Cardinality(packages[pkg]) = 0}
    /\ \E u \in Orders(unknown) :
          IF \E pkg \in DOMAIN indexes : indexes[pkg] >= Cardinality(DOMAIN indexes)
          THEN \* indexes[index] = pkg: index out of range
               pc' = "panic" /\ out' = <<>>
          ELSE /\ pc' = "done"
               /\ out' = [Packages |-> PackageLists(packages),
                          Indexes |-> IndexSlice(indexes),
                          Unknown |-> u]
    /\ UNCHANGED <<prog, fs, modName, maxDepth, stack, cache, packages, indexes, unknown,
                   writer, unknownBuf, locDep, locResult, located, expanded, lineLevel, firstSeen>>

----------------------------------------------------------------------------
(* Tree walker: the second main package *)

\* writeLine / writeUnknownLine: the text Fprintln is given (indent is not used)
writeLine(indent, line) == Split(line, Str_comment)[1]
writeUnknownLine(line) == Split(line, Str_comment)[1]

\* m.writeLine(indent, modPath) by the call at recursion level `level`
Wrote(fr, level) ==
    /\ writer' = Append(writer, writeLine(fr.indent, fr.modPath))
    /\ lineLevel' = Append(lineLevel, level)

\* getModuleList of fr up to the range loop (lines 106-136), r the locator's answer
TreeEnter(fr, r) ==
    IF DepthExhausted(fr.depth)
    THEN /\ Wrote(fr, Len(stack) - 1)
         /\ stack' = Pop
         /\ UNCHANGED <<cache, unknownBuf, expanded>>
    ELSE IF Visited(cache, fr.modPath)
    THEN /\ stack' = Pop
         /\ UNCHANGED <<cache, writer, unknownBuf, expanded, lineLevel>>
    ELSE /\ cache' = MarkVisited(cache, fr.modPath)
         /\ IF ~r.found
            THEN /\ unknownBuf' = Append(unknownBuf, writeUnknownLine(fr.modPath))
                 /\ stack' = Pop
                 /\ UNCHANGED <<writer, expanded, lineLevel>>
            ELSE /\ Wrote(fr, Len(stack) - 1)
                 /\ UNCHANGED unknownBuf
                 /\ IF ~Parsed(r.path)
                    THEN stack' = Pop /\ UNCHANGED expanded
                    ELSE /\ stack' = SetTop(Ranging(fr, r.path))
                         /\ expanded' = Append(expanded, fr.modPath)

Tree_getModuleList ==
    /\ prog = "tree" /\ pc = "walk" /\ stack # <<>> /\ Top.at = "enter"
    /\ TreeEnter(Top, Locator(Top.modPath))
    /\ UNCHANGED <<prog, fs, modName, maxDepth, pc, packages, indexes, unknown, out,
                   stderr, locDep, locResult, located, firstSeen>>

\* one iteration of the range loop (lines 137-140), up to the recursive call
Tree_range ==
    /\ prog = "tree" /\ pc = "walk" /\ stack # <<>> /\ Top.at = "range"
    /\ Top.i <= Len(Top.Require)
    /\ stack' = Recurse(Top, Line(Top.Require[Top.i]))
    /\ UNCHANGED <<prog, fs, modName, maxDepth, pc, cache, packages, indexes, unknown,
                   writer, unknownBuf, out, stderr, locDep, locResult, located, expanded,
                   lineLevel, firstSeen>>

\* the range loop is over: getModuleList returns (line 141)
Tree_return ==
    /\ prog = "tree" /\ pc = "walk" /\ stack # <<>> /\ Top.at = "range"
    /\ Top.i > Len(Top.Require)
    /\ stack' = Pop
    /\ UNCHANGED <<prog, fs, modName, maxDepth, pc, cache, packages, indexes, unknown,
                   writer, unknownBuf, out, stderr, locDep, locResult, located, expanded,
                   lineLevel, firstSeen>>

\* Flush (lines 95-104): the two buffers between the fixed banners
Tree_Flush ==
    /\ prog = "tree" /\ pc = "walk" /\ stack = <<>>
    /\ pc' = "done"
    /\ out' = [Direct |-> writer, Transient |-> unknownBuf]
    /\ UNCHANGED <<prog, fs, modName, maxDepth, stack, cache, packages, indexes, unknown,
                   writer, unknownBuf, stderr, locDep, locResult, located, expanded, lineLevel,
                   firstSeen>>

----------------------------------------------------------------------------
(* The locator run alone, on the argument the walkers hand it *)

constructFilePath_run ==
    /\ prog = "locator" /\ pc = "main"
    /\ locResult' = Locate(fs, locDep)
    /\ pc' = "done"
    /\ UNCHANGED <<prog, fs, modName, maxDepth, stack, cache, packages, indexes, unknown,
                   writer, unknownBuf, out, stderr, locDep, located, expanded, lineLevel,
                   firstSeen>>

----------------------------------------------------------------------------

NextWalk ==
    \/ List
    \/ Graph_getModuleList
    \/ Graph_range
    \/ Graph_return
    \/ Graph_Flush
    \/ Tree_getModuleList
    \/ Tree_range
    \/ Tree_return
    \/ Tree_Flush

Next == NextWalk \/ constructFilePath_run

Spec == Init /\ [][Next]_vars

\* The walkers on the cyclic manifest graphs.  The program is one sequential
\* call chain that nothing suspends: a step that can be taken is taken.
CycleSpec == InitCyclic /\ [][NextWalk]_vars /\ WF_vars(NextWalk)

\* the walkers on every manifest graph
WalkSpec == InitWalk /\ [][NextWalk]_vars /\ WF_vars(NextWalk)

Done == pc = "done"

----------------------------------------------------------------------------
(* Vocabulary of the properties *)

Count(seq, x) == Cardinality({k \in 1..Len(seq) : seq[k] = x})

Elems(seq) == {seq[k] : k \in 1..Len(seq)}

\* the require lines of the manifest an identity leads to (none when the
\* identity is not located or its go.mod is not read and parsed)
RequiresOf(id) ==
    IF located[id].found /\ Parsed(located[id].path)
    THEN fs.manifest[located[id].path].Require ELSE <<>>

Expandable(id) == located[id].found /\ Parsed(located[id].path)

\* the identities the manifest of id requires
IdSucc(id) == {Line(RequiresOf(id)[i]) : i \in 1..Len(RequiresOf(id))}

\* the identities at most k requirement steps away from the root
RECURSIVE Within(_)
Within(k) ==
    IF k <= 0 THEN {modName} ELSE UNION {{id} \cup IdSucc(id) : id \in Within(k - 1)}

\* the identities the root reaches
Reachable == Within(Cardinality(DOMAIN located))

Walking == prog \in {"graph", "tree"}

----------------------------------------------------------------------------
(* C1 *)

\* C1 as claimed: on the cycle A -> B -> A the walk, when it ends, has expanded
\* each of A and B exactly once, whatever the depth bound.
C1_ExactlyOnceAnyDepth ==
    (Done /\ Walking /\ fs = CycleWorld.fs)
        => /\ Count(expanded, A) = 1
           /\ Count(expanded, B \o Str_space \o V1) = 1

AtMostOnce == \A id \in DOMAIN located : Count(expanded, id) <= 1

UnlimitedExactlyOnce ==
    (Done /\ maxDepth = -1)
        => \A id \in Reachable : Expandable(id) => Count(expanded, id) = 1

\* C1 (amended): every walk ends, for every depth bound; no identity string is
\* expanded twice; with the unlimited depth every identity the root reaches
\* whose manifest is located and parsed is expanded exactly once.
C1_TerminatesExpandsOnce == <>Done /\ []AtMostOnce /\ []UnlimitedExactlyOnce

\* the cycle walked to its end with unlimited depth: a, b v1.0.0 and a v1.0.0
\* (the root again, under its versioned identity) expanded once each
C1_Witness ==
    /\ Done /\ fs = CycleWorld.fs /\ maxDepth = -1
    /\ expanded = <<A, B \o Str_space \o V1, A \o Str_space \o V1>>

----------------------------------------------------------------------------
(* C2 *)

DiamondWorld ==
    GraphWorld([n \in Nodes |-> CASE n = R -> <<X, Y>> [] n = X -> <<Z>>
                                  [] n = Y -> <<Z>> [] OTHER -> <<>>], {})

\* the index table is the first-seen order of the dependency targets
FirstSeenOrder ==
    /\ DOMAIN indexes = Elems(firstSeen)
    /\ \A k \in 1..Len(firstSeen) : indexes[firstSeen[k]] = k - 1

\* every require line ranged over so far has its index in its requirer's edges
EdgesRecorded ==
    \A k \in 1..Len(stack) :
        stack[k].at = "range" =>
            \A j \in 1..(stack[k].i - 1) :
                /\ Line(stack[k].Require[j]) \in DOMAIN indexes
                /\ stack[k].modPath \in DOMAIN packages
                /\ indexes[Line(stack[k].Require[j])] \in packages[stack[k].modPath]

\* at the end every require line of every expanded module is an edge, and the
\* flushed index list is the first-seen order
AllEdgesFlushed ==
    Done =>
        /\ out.Indexes = firstSeen
        /\ \A id \in Elems(expanded) : \A line \in IdSucc(id) :
              /\ line \in DOMAIN indexes
              /\ id \in DOMAIN out.Packages
              /\ indexes[line] \in Elems(out.Packages[id])

C2_State == prog = "graph" => FirstSeenOrder /\ EdgesRecorded /\ AllEdgesFlushed

\* an index, once assigned, is never changed or removed
C2_Stable ==
    \A line \in DOMAIN indexes : line \in DOMAIN indexes' /\ indexes'[line] = indexes[line]

\* C2: in graph mode each dependency target gets one index, the next free one
\* when it is first referenced, and keeps it: the table is a bijection onto
\* 0..n-1 in first-seen order, and every edge of every requirer (the two edges
\* to D of the diamond among them) holds the index of its target.
C2_IndexOnce == []C2_State /\ [][C2_Stable]_vars

\* the diamond walked to its end: z has the one index 1, in the edges of x and of y
C2_Witness ==
    /\ Done /\ prog = "graph" /\ fs = DiamondWorld.fs /\ maxDepth = -1
    /\ out.Indexes = <<X \o Str_space \o V1, Z \o Str_space \o V1, Y \o Str_space \o V1>>
    /\ out.Packages[X \o Str_space \o V1] = <<1>>
    /\ out.Packages[Y \o Str_space \o V1] = <<1>>

----------------------------------------------------------------------------
(* C3 *)

Chain3World ==
    GraphWorld([n \in Nodes |-> CASE n = R -> <<X>> [] n = X -> <<Y>> [] OTHER -> <<>>], {})

\* each call is one below its caller, the outermost has the flag's value
DepthCountsDown ==
    \A k \in 1..Len(stack) :
        stack[k].depth = IF k = 1 THEN maxDepth ELSE stack[k - 1].depth - 1

\* a call with remaining depth 0 never ranges over requirements
ExhaustedNeverRanges ==
    \A k \in 1..Len(stack) : stack[k].depth = 0 => stack[k].at = "enter"

\* bound 1 on r -> x -> y: the edge r -> x (the lines r and x), nothing of y
Chain3AtDepth1 ==
    (Done /\ fs = Chain3World.fs /\ maxDepth = 1) =>
        /\ expanded = <<R>>
        /\ prog = "graph" =>
              /\ out.Packages = (R :> <<0>>)
              /\ out.Indexes = <<X \o Str_space \o V1>>
        /\ prog = "tree" => out.Direct = <<R, X \o Str_space \o V1>>

\* C3: the remaining depth goes down by exactly 1 per recursive call and a
\* module reached with remaining depth 0 is not expanded; with bound 1 on
\* A -> B -> C the output has A -> B and nothing about C.
C3_DepthBound == Walking => DepthCountsDown /\ ExhaustedNeverRanges /\ Chain3AtDepth1

C3_Witness ==
    /\ Done /\ fs = Chain3World.fs /\ maxDepth = 1 /\ prog = "graph"
    /\ out.Packages = (R :> <<0>>)
    /\ Y \o Str_space \o V1 \notin DOMAIN indexes

----------------------------------------------------------------------------
(* C4 *)

\* how often an identity is in the unknown output collected so far
UnknownCount(id) ==
    IF prog = "graph" THEN (IF id \in unknown THEN 1 ELSE 0)
    ELSE Count(unknownBuf, writeUnknownLine(id))

\* how often an identity is in the unknown section Flush wrote
FlushedUnknownCount(id) ==
    IF prog = "graph" THEN Count(out.Unknown, id)
    ELSE Count(out.Transient, writeUnknownLine(id))

\* the identities an expanded module requires
Required == UNION {IdSucc(id) : id \in Elems(expanded)}

\* C4 as claimed: at the end every required identity that no layout locates is
\* in the unknown output exactly once, whatever the depth bound.
C4_ExactlyOnceAnyDepth ==
    (Done /\ Walking) =>
        \A id \in Required : ~located[id].found => FlushedUnknownCount(id) = 1

\* C4 (amended): an identity is never twice in the unknown output, and only
\* when no layout locates it; with the unlimited depth every unlocated identity
\* that an expanded module requires is in it exactly once.
C4_UnknownOnce ==
    Walking =>
        /\ \A id \in DOMAIN located :
              /\ UnknownCount(id) <= 1
              /\ UnknownCount(id) = 1 => ~located[id].found
        /\ Done => \A id \in DOMAIN located :
              /\ FlushedUnknownCount(id) = UnknownCount(id)
              /\ (maxDepth = -1 /\ id \in Required /\ ~located[id].found)
                    => FlushedUnknownCount(id) = 1

\* z, in no layout, required by two expanded modules, flushed once
C4_Witness ==
    /\ Done /\ Walking /\ maxDepth = -1
    /\ \E id \in Required :
          /\ ~located[id].found
          /\ Cardinality({k \in 1..Len(expanded) : id \in IdSucc(expanded[k])}) >= 2
          /\ FlushedUnknownCount(id) = 1

----------------------------------------------------------------------------
(* C5, C6 *)

Located == prog = "locator" /\ Done

\* the layouts of the identity that exist on disk, by priority
Existing == {i \in 1..3 : Stat(fs, Layouts(locDep)[i]) = "ok"}

\* C5: constructFilePath answers found exactly when one of the three layouts
\* exists on disk, with the first existing one in the order src/<name>,
\* pkg/mod/<name>@<semver>, pkg/mod/<name>@<version>, whatever Stat gives for
\* each candidate.
C5_FirstExisting ==
    Located =>
        /\ locResult.found <=> Existing # {}
        /\ locResult.found => locResult.path = Layouts(locDep)[Min(Existing)]

PseudoDep == X \o Str_space \o Pseudo

\* C6: for a "name version" identity with a pseudo-version, when only
\* pkg/mod/<name>@<whole version token> exists the locator returns it, found.
C6_WholeToken ==
    (/\ Located /\ locDep = PseudoDep
     /\ Stat(fs, Layouts(locDep)[1]) = "noent"
     /\ Stat(fs, Layouts(locDep)[2]) = "noent"
     /\ Stat(fs, Layouts(locDep)[3]) = "ok")
        => locResult = [path |-> Layouts(locDep)[3], found |-> TRUE]

----------------------------------------------------------------------------
(* C7 *)

\* C7: in graph mode a module that was expanded and whose manifest declares no
\* requirement is a key of the flushed packages, with an empty list, and Flush
\* writes the "No dependencies found for package" diagnostic for it.
C7_EmptyRequirer ==
    (Done /\ prog = "graph") =>
        \A id \in Elems(expanded) :
            IdSucc(id) = {} =>
                /\ id \in DOMAIN out.Packages
                /\ out.Packages[id] = <<>>
                /\ id \in stderr

----------------------------------------------------------------------------
(* C8 *)

\* the line starts with exactly n spaces
LeadingSpaces(line, n) ==
    /\ Len(line) > n
    /\ \A j \in 1..n : line[j] = " "
    /\ line[n + 1] # " "

\* C8: every line of the located-modules buffer of tree mode is indented by two
\* spaces per recursion level of the call that wrote it, the root by none.
C8_Indented ==
    prog = "tree" =>
        \A k \in 1..Len(writer) : LeadingSpaces(writer[k], 2 * lineLevel[k])

----------------------------------------------------------------------------
(* C9 *)

ChainIdentity(i) == IF i = 1 THEN ChainName(1) ELSE ChainName(i) \o Str_space \o V1

\* with the unlimited depth no call has remaining depth 0
NeverExhausted == maxDepth = -1 => \A k \in 1..Len(stack) : stack[k].depth # 0

\* the long chain walked with the unlimited depth: every module expanded, in order
ChainExpanded ==
    (Done /\ fs = ChainWorld.fs /\ maxDepth = -1) =>
        expanded = [i \in 1..ChainLen |-> ChainIdentity(i)]

\* C9: with the unlimited depth -1 the remaining depth of every call stays
\* different from 0, and both walkers expand every module of the chain of 50.
C9_UnlimitedStable == Walking => NeverExhausted /\ ChainExpanded

C9_Witness ==
    /\ Done /\ fs = ChainWorld.fs /\ maxDepth = -1 /\ prog = "tree"
    /\ Len(expanded) = ChainLen
    /\ expanded[ChainLen] = ChainIdentity(ChainLen)

----------------------------------------------------------------------------
(* C10 *)

AllExpandable == \A id \in DOMAIN located : Expandable(id)

\* C10: when every module is located and parsed, a walk with depth bound
\* d >= 1 has, at its end, expanded every module whose shortest requirement
\* path from the root is shorter than d.
C10_CompleteWithinBound ==
    (Done /\ Walking /\ maxDepth >= 1 /\ AllExpandable) =>
        \A id \in Within(maxDepth - 1) : id \in Elems(expanded)

\* the same for the graph walker alone, and for the tree walker alone
C10_Graph == prog = "graph" => C10_CompleteWithinBound
C10_Tree == prog = "tree" => C10_CompleteWithinBound

====
